---- MODULE Spec2Model ----
(***************************************************************************)
(* A model of reactivepy's evaluation core:                                *)
(*   - execute.py: ExecutionResult, the two capture contexts and the       *)
(*     Executor's run_cell and run_coroutine;                              *)
(*   - code_object.py: CodeObject construction (inputs, outputs, identity).*)
(* The executor is checked under Spec (calls one at a time) and under     *)
(* SpecOverlap (two overlapping calls of run_coroutine), CodeObject        *)
(* construction under SpecCode (one unit, nested scopes) and SpecIdent     *)
(* (two units compared).                                                   *)
(***************************************************************************)
EXTENDS Integers, Sequences, FiniteSets, TLC

VARIABLES
    sys,             \* the process-wide singletons: sys.stdout, sys.stderr, sys.displayhook, sys.excepthook
    ns,              \* ns_manager.global_ns, the shared namespace
    self_excepthook, \* Executor.excepthook, saved at construction
    fr,              \* the frames of the calls of run_cell / run_coroutine, by slot
    results,         \* the ExecutionResult objects, by call number
    bufs,            \* what the capture buffers (io.StringIO) hold, by call number
    ncalls,          \* calls started so far
    ns_manager,      \* code_object.py: the names the builtin registry holds
    units,           \* code_object.py: the constructed CodeObjects (or the error raised), by slot
    set_order        \* the iteration orders this process has given to frozensets, by insertion order

vars == <<sys, ns, self_excepthook, fr, results, bufs, ncalls, ns_manager, units, set_order>>

execVars == <<sys, ns, self_excepthook, fr, results, bufs, ncalls>>
codeVars == <<ns_manager, units, set_order>>

(***************************************************************************)
(* Bounds                                                                  *)
(***************************************************************************)
MaxCalls == 2    \* calls of run_cell / run_coroutine in one behaviour
MaxStmts == 2    \* top-level statements of a cell
MaxEffects == 1  \* side effects of an awaited computation before it finishes
MaxSyms == 3     \* symbols of a source's module scope
MaxNested == 1   \* symbols of a nested scope

(***************************************************************************)
(* Values and objects                                                      *)
(***************************************************************************)
None == "None"
UNBOUND == "UNBOUND"
Names == {"x", "y"}
NonNull == {"v1", "v2"}
Values == NonNull \cup {None}

Obj(k, i) == [kind |-> k, id |-> i]
NoneObj == Obj("None", 0)
OrigStdout == Obj("orig_stdout", 0)
OrigStderr == Obj("orig_stderr", 0)
OrigDisplayhook == Obj("orig_displayhook", 0)
OrigExcepthook == Obj("orig_excepthook", 0)
HostObj == Obj("host", 0)       \* installed by the embedding process before any call
UserObj == Obj("user", 0)       \* installed by executed code
StdoutBuf(c) == Obj("buf_stdout", c)          \* the io.StringIO of call c
StderrBuf(c) == Obj("buf_stderr", c)
ResultHook(c) == Obj("result_displayhook", c) \* the bound method exec_result.displayhook of call c

Slots == {1, 2}
CallIds == 1..MaxCalls

(***************************************************************************)
(* execute.py: ExecutionResult                                             *)
(***************************************************************************)
\* The exception field holds None or a (type, value, traceback) triple; the model
\* writes None as the empty sequence.
NoException == <<>>

ExecutionResult ==
    [stdout |-> NoneObj, stderr |-> NoneObj,
     has_output |-> FALSE, output |-> None, target_id |-> None,
     has_exception |-> FALSE, exception |-> NoException]

\* ExecutionResult.is_complete, by its four parts.
stdout_fulfilled(r) == r.stdout # NoneObj
stderr_fulfilled(r) == r.stderr # NoneObj
output_fulfilled(r) ==
    IF r.has_output THEN r.output # None /\ r.target_id # None ELSE TRUE
exception_fulfilled(r) ==
    IF r.has_exception THEN r.exception # NoException /\ Len(r.exception) = 3 ELSE TRUE
is_complete(r) ==
    stdout_fulfilled(r) /\ stderr_fulfilled(r) /\ output_fulfilled(r) /\ exception_fulfilled(r)

\* A variant of capture_io with the two streams interchanged.
capture_io_swapped(r, stdout, stderr) == [r EXCEPT !.stdout = stderr, !.stderr = stdout]

capture_io(r, stdout, stderr) == [r EXCEPT !.stdout = stdout, !.stderr = stderr]

displayhook(r, result) ==
    [r EXCEPT !.output = result,
              !.has_output = IF result # None THEN TRUE ELSE @]

(***************************************************************************)
(* execute.py: CapturedIOCtx and CapturedDisplayCtx. A context object is   *)
(* the record of what its __enter__ saved; __enter__ and __exit__ act on   *)
(* the process-wide singletons sy.                                         *)
(***************************************************************************)
CapturedIOCtx_saved(sy) == [sys_stdout |-> sy.stdout, sys_stderr |-> sy.stderr]

CapturedIOCtx_enter(sy, c) ==
    [sy EXCEPT !.stdout = StdoutBuf(c), !.stderr = StderrBuf(c)]

\* A variant of CapturedIOCtx.__exit__ that forgets sys.stderr.
CapturedIOCtx_exit_stdout_only(sy, ctx) == [sy EXCEPT !.stdout = ctx.sys_stdout]

CapturedIOCtx_exit(sy, ctx) ==
    [sy EXCEPT !.stdout = ctx.sys_stdout, !.stderr = ctx.sys_stderr]

CapturedDisplayCtx_saved(sy) == [sys_displayhook |-> sy.displayhook]

CapturedDisplayCtx_enter(sy, c) == [sy EXCEPT !.displayhook = ResultHook(c)]

\* A variant of CapturedDisplayCtx.__exit__ that leaves sys.displayhook as it is.
CapturedDisplayCtx_exit_kept(sy, ctx) == sy

CapturedDisplayCtx_exit(sy, ctx) == [sy EXCEPT !.displayhook = ctx.sys_displayhook]

\* Leaving "with CapturedIOCtx(...), CapturedDisplayCtx(...)": the inner context exits first.
ExitContexts(sy, f) ==
    CapturedIOCtx_exit(CapturedDisplayCtx_exit(sy, f.disp_ctx), f.io_ctx)

(***************************************************************************)
(* The cells given to run_cell. A cell is what ast.parse makes of its      *)
(* source (a parse error, or the list of top-level statements) and what    *)
(* each statement does when executed.                                      *)
(*   kind    : the ast node class: Assign, AugAssign, AnnAssign, Expr or   *)
(*             Other (pass, import, def, ...);                             *)
(*   targets : the assignment targets, a name or "<sub>" for an attribute  *)
(*             or subscript target;                                        *)
(*   load    : the name the right-hand side (or the expression) reads, or  *)
(*             None when it is a constant;                                 *)
(*   val     : the constant's value; UNBOUND for an annotation without a   *)
(*             value ("x: int");                                           *)
(*   eff     : what evaluating it does before it yields its value.         *)
(***************************************************************************)
Node(k, t, l, v, e) == [kind |-> k, targets |-> t, load |-> l, val |-> v, eff |-> e]

Effects == {"ok", "raise", "raise_syntax", "raise_exit", "print", "eprint", "set_stdout",
            "set_stderr", "set_displayhook", "set_excepthook", "nocompile"}

OtherNodes == {Node("Other", <<>>, None, None, e) : e \in Effects}
ExprNodes ==
    {Node("Expr", <<>>, None, "v1", e) : e \in {"ok", "raise", "nocompile"}}
    \cup {Node("Expr", <<>>, None, None, "ok")}
    \cup {Node("Expr", <<>>, "x", None, "ok")}
AssignNodes ==
    {Node("Assign", <<"x">>, None, "v1", e) : e \in {"ok", "raise"}}
    \cup {Node("Assign", <<"x">>, None, None, "ok"),
          Node("Assign", <<"x", "y">>, None, "v1", "ok"),
          Node("Assign", <<"<sub>">>, None, "v1", "ok"),
          Node("AugAssign", <<"x">>, None, "v2", "ok"),
          Node("AnnAssign", <<"x">>, None, "v1", "ok"),
          Node("AnnAssign", <<"x">>, None, UNBOUND, "ok")}
Nodes == OtherNodes \cup ExprNodes \cup AssignNodes

Bodies == UNION {[1..n -> Nodes] : n \in 0..MaxStmts}
Cells == {[parse_error |-> TRUE, body |-> <<>>]}
         \cup {[parse_error |-> FALSE, body |-> b] : b \in Bodies}

ExcTypes == {"ValueError", "SyntaxError", "CancelledError"}
\* issubclass(t, u) over the exception classes of the model
issubclass(t, u) ==
    \/ t = u
    \/ u = "BaseException"
    \/ u = "Exception" /\ t \in {"ValueError", "SyntaxError", "NameError"}
    \* SystemExit and CancelledError derive from BaseException alone
NoHandleSets == {{}, {"CancelledError"}, {"Exception"}}

(***************************************************************************)
(* Executing code. The heap h holds what executed code can reach:          *)
(* [sys, ns, results, bufs], and exc, the exception in flight (None when   *)
(* there is none).                                                         *)
(***************************************************************************)
Heap(sy, n, rs, bs) == [sys |-> sy, ns |-> n, results |-> rs, bufs |-> bs, exc |-> None]

\* file.write(tok): a capture buffer keeps it; what other streams are given is not followed.
Write(h, stream, tok) ==
    IF stream.kind = "buf_stdout" THEN [h EXCEPT !.bufs[stream.id].out = Append(@, tok)]
    ELSE IF stream.kind = "buf_stderr" THEN [h EXCEPT !.bufs[stream.id].err = Append(@, tok)]
    ELSE h

\* sys.displayhook(v), as the 'single' mode's PRINT_EXPR calls it: the hook of an
\* ExecutionResult records v; Python's own hook prints the repr of a value that is not None.
CallDisplayhook(h, v) ==
    LET hook == h.sys.displayhook IN
    IF hook.kind = "result_displayhook"
    THEN [h EXCEPT !.results[hook.id] = displayhook(@, v)]
    ELSE IF hook.kind = "orig_displayhook" /\ v # None
    THEN Write(h, h.sys.stdout, "repr")
    ELSE h

\* What a statement's evaluation does before it yields a value.
ApplyEffect(h, e) ==
    CASE e = "raise" -> [h EXCEPT !.exc = "ValueError"]
      [] e = "raise_syntax" -> [h EXCEPT !.exc = "SyntaxError"]
      [] e = "raise_exit" -> [h EXCEPT !.exc = "SystemExit"]
      [] e = "print" -> Write(h, h.sys.stdout, "text")
      [] e = "eprint" -> Write(h, h.sys.stderr, "text")
      [] e = "set_stdout" -> [h EXCEPT !.sys.stdout = UserObj]
      [] e = "set_stderr" -> [h EXCEPT !.sys.stderr = UserObj]
      [] e = "set_displayhook" -> [h EXCEPT !.sys.displayhook = UserObj]
      [] e = "set_excepthook" -> [h EXCEPT !.sys.excepthook = UserObj]
      [] OTHER -> h

\* The names an assignment binds: its Name targets.
BoundNames(n) == {n.targets[i] : i \in 1..Len(n.targets)} \cap Names

\* exec of one statement; interactive is TRUE for a node compiled in 'single' mode.
ExecNode(h, n, interactive) ==
    LET h1 == ApplyEffect(h, n.eff)
        reads == (IF n.load # None THEN {n.load} ELSE {})
                 \cup (IF n.kind = "AugAssign" THEN BoundNames(n) ELSE {})
        v == IF n.load # None THEN h1.ns[n.load] ELSE n.val
    IN  IF h1.exc # None THEN h1
        ELSE IF \E r \in reads : h1.ns[r] = UNBOUND THEN [h1 EXCEPT !.exc = "NameError"]
        ELSE IF n.kind = "Expr"
        THEN IF interactive THEN CallDisplayhook(h1, v) ELSE h1
        ELSE IF v = UNBOUND THEN h1
        ELSE [h1 EXCEPT !.ns = [k \in Names |-> IF k \in BoundNames(n) THEN v ELSE @[k]]]

RECURSIVE ExecNodes(_, _, _)
ExecNodes(h, nodes, interactive) ==
    IF nodes = <<>> \/ h.exc # None THEN h
    ELSE ExecNodes(ExecNode(h, Head(nodes), interactive), Tail(nodes), interactive)

\* compile(mod, name, mode): a statement that parses but does not compile ('return'
\* or 'yield' outside a function) raises SyntaxError.
compiles(nodes) == \A i \in 1..Len(nodes) : nodes[i].eff # "nocompile"

\* The except BaseException blocks of _run_code and run_coroutine: render the
\* traceback and print it to sys.stderr; should the rendering itself raise, print
\* that exception to sys.stdout. render is "ok" or "raises".
Renders == {"ok", "raises"}
show_traceback(h, etype, render) ==
    IF render = "ok"
    THEN Write(h, h.sys.stderr,
               IF issubclass(etype, "SyntaxError") THEN "syntax_traceback" ELSE "traceback")
    ELSE Write(h, h.sys.stdout, "render_error")

\* _run_code, first line: install the Executor's excepthook.
run_code_enter(sy, hook) == [sy EXCEPT !.excepthook = hook]

\* A variant of run_code_exec whose outflag stays FALSE when the code raised.
run_code_exec_outflag_unset(h, nodes, interactive, old_excepthook, render) ==
    LET h1 == ExecNodes(h, nodes, interactive)
        h2 == [h1 EXCEPT !.sys.excepthook = old_excepthook, !.exc = None]
    IN  IF h1.exc # None
        THEN [heap |-> show_traceback(h2, h1.exc, render), outflag |-> FALSE, etype |-> h1.exc]
        ELSE [heap |-> h2, outflag |-> FALSE, etype |-> None]

\* A variant of run_code_exec without the finally clause: sys.excepthook stays as
\* the executed code left it.
run_code_exec_hook_kept(h, nodes, interactive, old_excepthook, render) ==
    LET h1 == ExecNodes(h, nodes, interactive)
        h2 == [h1 EXCEPT !.exc = None]
    IN  IF h1.exc # None
        THEN [heap |-> show_traceback(h2, h1.exc, render), outflag |-> TRUE, etype |-> h1.exc]
        ELSE [heap |-> h2, outflag |-> FALSE, etype |-> None]

\* _run_code, the rest: exec, restore the excepthook (finally), show the traceback
\* of what was raised. Yields the heap, outflag and etype, the type sys.exc_info()
\* gave the except block (None when nothing was raised).
run_code_exec(h, nodes, interactive, old_excepthook, render) ==
    LET h1 == ExecNodes(h, nodes, interactive)
        h2 == [h1 EXCEPT !.sys.excepthook = old_excepthook, !.exc = None]
    IN  IF h1.exc # None
        THEN [heap |-> show_traceback(h2, h1.exc, render), outflag |-> TRUE, etype |-> h1.exc]
        ELSE [heap |-> h2, outflag |-> FALSE, etype |-> None]

\* _run_ast_nodes, lines 164-185: the output name, the synthetic trailing
\* expression and the split into the batch and the display portion.
assign_nodes == {"AugAssign", "AnnAssign", "Assign"}
single_targets_nodes == {"AugAssign", "AnnAssign"}

AssignTarget(asg) ==
    IF asg.kind = "Assign" /\ Len(asg.targets) = 1 THEN asg.targets[1]
    ELSE IF asg.kind \in single_targets_nodes THEN asg.targets[1]
    ELSE None

Last(seq) == seq[Len(seq)]
Front(seq) == SubSeq(seq, 1, Len(seq) - 1)

run_ast_nodes_split(nodelist) ==
    LET asg == Last(nodelist)
        target == IF asg.kind \in assign_nodes THEN AssignTarget(asg) ELSE None
        named == target \in Names
        nl == IF named THEN Append(nodelist, Node("Expr", <<>>, target, None, "ok"))
              ELSE nodelist
    IN  [output_name |-> IF named THEN target ELSE None,
         to_run_exec |-> IF Last(nl).kind = "Expr" THEN Front(nl) ELSE nl,
         to_run_interactive |-> IF Last(nl).kind = "Expr" THEN <<Last(nl)>> ELSE <<>>]

(***************************************************************************)
(* The calls. A frame holds the locals of one call of run_cell or          *)
(* run_coroutine, and three records of what happened: before, the process- *)
(* wide singletons as they were when the call was made; ns_before, the     *)
(* namespace as it was then; fault, the type of the exception the executed *)
(* code or the awaited computation raised (None when it raised none).      *)
(* A fourth record, exit_rank, is set when the call ends: 1 for a call     *)
(* that ends while no other call of the frames has ended, 2 for the next.  *)
(***************************************************************************)
EmptyCell == [parse_error |-> FALSE, body |-> <<>>]
NoIOCtx == [sys_stdout |-> NoneObj, sys_stderr |-> NoneObj]
NoDisplayCtx == [sys_displayhook |-> NoneObj]

IdleFrame ==
    [pc |-> "idle", kind |-> "none", call |-> 0,
     code |-> EmptyCell, variable_name |-> None, nohandle |-> {},
     io_ctx |-> NoIOCtx, disp_ctx |-> NoDisplayCtx,
     output_name |-> None, to_run_exec |-> <<>>, to_run_interactive |-> <<>>,
     unit |-> "none", old_excepthook |-> NoneObj, run_failed |-> FALSE,
     effects |-> 0, awaited |-> None, raised |-> None, fault |-> None, exit_rank |-> 0,
     before |-> [stdout |-> NoneObj, stderr |-> NoneObj,
                 displayhook |-> NoneObj, excepthook |-> NoneObj],
     ns_before |-> [k \in Names |-> UNBOUND]]

Finished(f) == f.pc \in {"idle", "returned", "raised"}

\* The rank of the call that ends now among the calls of the frames that have ended.
ExitRank == 1 + Cardinality({t \in Slots : fr[t].pc \in {"returned", "raised"}})

\* The calls are serialized externally (spec section 5): a call starts when no other runs.
CanStart(s) ==
    /\ ncalls < MaxCalls
    /\ \A t \in Slots : Finished(fr[t])
    /\ s = 1

NoBufs == [out |-> <<>>, err |-> <<>>]

\* A call starts: its frame, its fresh ExecutionResult and buffers; the result and
\* the buffers of the call that used the slot before are dropped by their owner.
NewFrame(s, c, k) ==
    [IdleFrame EXCEPT !.pc = "enter", !.kind = k, !.call = c,
                      !.before = sys, !.ns_before = ns]

\* run_cell, lines 147-154: a new ExecutionResult, and both contexts entered.
CellStart(s) ==
    /\ CanStart(s)
    /\ \E cell \in Cells :
       LET c == ncalls + 1
           entered == CapturedIOCtx_enter(sys, c)
           r == capture_io(ExecutionResult, entered.stdout, entered.stderr)
       IN  /\ ncalls' = c
           /\ results' = [d \in CallIds |-> IF d = c THEN r ELSE ExecutionResult]
           /\ bufs' = [d \in CallIds |-> NoBufs]
           /\ fr' = [fr EXCEPT ![s] =
                  [NewFrame(s, c, "cell") EXCEPT
                      !.pc = "parse", !.code = cell,
                      !.io_ctx = CapturedIOCtx_saved(sys),
                      !.disp_ctx = CapturedDisplayCtx_saved(sys)]]
           /\ sys' = CapturedDisplayCtx_enter(entered, c)
    /\ UNCHANGED <<ns, self_excepthook, codeVars>>

\* run_cell, line 155: ast.parse(code, filename=name, mode='exec') raises SyntaxError
\* for a source that does not parse, and nothing around it catches.
\* A variant of the parse step that reports no error and yields no statements.
ast_parse_lenient(code) ==
    IF code.parse_error THEN [raised |-> None, body |-> <<>>]
    ELSE [raised |-> None, body |-> code.body]

ast_parse(code) ==
    IF code.parse_error THEN [raised |-> "SyntaxError", body |-> <<>>]
    ELSE [raised |-> None, body |-> code.body]

\* run_cell, lines 155-156, and _run_ast_nodes, lines 164-185. An exception of
\* ast.parse leaves the with block: the contexts exit and it leaves run_cell.
CellParse(s) ==
    /\ fr[s].pc = "parse"
    /\ IF ast_parse(fr[s].code).raised # None
       THEN /\ sys' = ExitContexts(sys, fr[s])
            /\ fr' = [fr EXCEPT ![s].pc = "raised", ![s].exit_rank = ExitRank,
                                ![s].raised = ast_parse(fr[s].code).raised]
       ELSE IF ast_parse(fr[s].code).body = <<>>
       THEN /\ fr' = [fr EXCEPT ![s].pc = "finish", ![s].run_failed = TRUE,
                                ![s].output_name = None]
            /\ sys' = sys
       ELSE LET sp == run_ast_nodes_split(ast_parse(fr[s].code).body)
            IN  /\ fr' = [fr EXCEPT ![s].pc = "compile", ![s].unit = "batch",
                                    ![s].output_name = sp.output_name,
                                    ![s].to_run_exec = sp.to_run_exec,
                                    ![s].to_run_interactive = sp.to_run_interactive]
                /\ sys' = sys
    /\ UNCHANGED <<ns, self_excepthook, results, bufs, ncalls, codeVars>>

Unit(f) == IF f.unit = "batch" THEN f.to_run_exec ELSE f.to_run_interactive

\* _run_ast_nodes, lines 188-189 and 194-195 with line 204: compile the unit; a
\* compile error is caught at line 198; otherwise _run_code starts.
CellCompile(s) ==
    /\ fr[s].pc = "compile"
    /\ IF compiles(Unit(fr[s]))
       THEN /\ fr' = [fr EXCEPT ![s].pc = "exec", ![s].old_excepthook = sys.excepthook]
            /\ sys' = run_code_enter(sys, self_excepthook)
       ELSE /\ fr' = [fr EXCEPT ![s].pc = "finish", ![s].run_failed = TRUE]
            /\ sys' = sys
    /\ UNCHANGED <<ns, self_excepthook, results, bufs, ncalls, codeVars>>

\* A variant of run_ast_nodes_step that goes on to the display portion whatever
\* the batch portion's outflag.
run_ast_nodes_step_no_abort(f, outflag) ==
    IF f.unit = "batch" /\ f.to_run_interactive # <<>>
    THEN [f EXCEPT !.pc = "compile", !.unit = "display",
                   !.run_failed = outflag]
    ELSE [f EXCEPT !.pc = "finish", !.run_failed = outflag \/ f.run_failed]

\* _run_ast_nodes, lines 190-201: what follows a unit's _run_code. A set outflag
\* returns True at once; after the batch portion comes the display portion, if any;
\* after the last unit False is returned.
run_ast_nodes_step(f, outflag) ==
    IF outflag
    THEN [f EXCEPT !.pc = "finish", !.run_failed = TRUE]
    ELSE IF f.unit = "batch" /\ f.to_run_interactive # <<>>
    THEN [f EXCEPT !.pc = "compile", !.unit = "display"]
    ELSE [f EXCEPT !.pc = "finish", !.run_failed = FALSE]

\* _run_code, lines 206-236, and what _run_ast_nodes does with its outflag.
CellExec(s, render) ==
    /\ fr[s].pc = "exec"
    /\ LET f == fr[s]
           out == run_code_exec(Heap(sys, ns, results, bufs), Unit(f),
                                f.unit = "display", f.old_excepthook, render)
       IN  /\ sys' = out.heap.sys
           /\ ns' = out.heap.ns
           /\ results' = out.heap.results
           /\ bufs' = out.heap.bufs
           /\ fr' = [fr EXCEPT ![s] =
                  run_ast_nodes_step(
                      [f EXCEPT !.fault = IF out.etype # None THEN out.etype ELSE @],
                      out.outflag)]
    /\ UNCHANGED <<self_excepthook, ncalls, codeVars>>

\* run_cell, lines 158-161: the flags, the contexts' exit, the return.
run_cell_result(r, run_failed, output_name) ==
    [r EXCEPT !.has_exception = run_failed, !.target_id = output_name]

CellFinish(s) ==
    /\ fr[s].pc = "finish"
    /\ results' = [results EXCEPT ![fr[s].call] =
                       run_cell_result(@, fr[s].run_failed, fr[s].output_name)]
    /\ sys' = ExitContexts(sys, fr[s])
    /\ fr' = [fr EXCEPT ![s].pc = "returned", ![s].exit_rank = ExitRank]
    /\ UNCHANGED <<ns, self_excepthook, bufs, ncalls, codeVars>>

(***************************************************************************)
(* run_coroutine                                                           *)
(***************************************************************************)
\* lines 106-111: the result with its target_id, both contexts entered,
\* has_exception set, and the coroutine awaited.
CoStart(s) ==
    /\ CanStart(s)
    /\ \E variable_name \in Names, nohandle_exceptions \in NoHandleSets :
       LET c == ncalls + 1
           entered == CapturedIOCtx_enter(sys, c)
           r == [capture_io([ExecutionResult EXCEPT !.target_id = variable_name],
                            entered.stdout, entered.stderr)
                    EXCEPT !.has_exception = TRUE]
       IN  /\ ncalls' = c
           /\ results' = [d \in CallIds |-> IF d = c THEN r ELSE ExecutionResult]
           /\ bufs' = [d \in CallIds |-> NoBufs]
           /\ fr' = [fr EXCEPT ![s] =
                  [NewFrame(s, c, "coroutine") EXCEPT
                      !.pc = "await", !.variable_name = variable_name,
                      !.nohandle = nohandle_exceptions,
                      !.io_ctx = CapturedIOCtx_saved(sys),
                      !.disp_ctx = CapturedDisplayCtx_saved(sys)]]
           /\ sys' = CapturedDisplayCtx_enter(entered, c)
    /\ UNCHANGED <<ns, self_excepthook, codeVars>>

\* run_coroutine entered without the calls being serialized: the first call enters
\* from the initial state, the second while the first is suspended at its await
\* (line 112), the only point where another call can run. Lines 106-111 as in CoStart.
CanEnter(s) ==
    /\ fr[s].pc = "idle"
    /\ ncalls = s - 1
    /\ \A t \in Slots : t < s => fr[t].pc = "await"

CoEnter(s) ==
    /\ CanEnter(s)
    /\ \E variable_name \in Names, nohandle_exceptions \in NoHandleSets :
       LET c == ncalls + 1
           entered == CapturedIOCtx_enter(sys, c)
           r == [capture_io([ExecutionResult EXCEPT !.target_id = variable_name],
                            entered.stdout, entered.stderr)
                    EXCEPT !.has_exception = TRUE]
       IN  /\ ncalls' = c
           /\ results' = [results EXCEPT ![c] = r]
           /\ fr' = [fr EXCEPT ![s] =
                  [NewFrame(s, c, "coroutine") EXCEPT
                      !.pc = "await", !.variable_name = variable_name,
                      !.nohandle = nohandle_exceptions,
                      !.io_ctx = CapturedIOCtx_saved(sys),
                      !.disp_ctx = CapturedDisplayCtx_saved(sys)]]
           /\ sys' = CapturedDisplayCtx_enter(entered, c)
    /\ UNCHANGED <<ns, self_excepthook, bufs, codeVars>>

\* What the awaited computation does while it runs.
CoEffects == {"print", "eprint", "set_stdout", "set_stderr", "set_displayhook"}
CoEffect(s, e) ==
    /\ fr[s].pc = "await"
    /\ fr[s].effects < MaxEffects
    /\ LET h == ApplyEffect(Heap(sys, ns, results, bufs), e)
       IN  /\ sys' = h.sys
           /\ bufs' = h.bufs
    /\ fr' = [fr EXCEPT ![s].effects = @ + 1]
    /\ UNCHANGED <<ns, self_excepthook, results, ncalls, codeVars>>

\* A variant of update_ns that binds every name of the namespace to the value.
update_ns_every_name(n, name, value) == [k \in DOMAIN n |-> value]

\* Executor.update_ns
update_ns(n, name, value) == [n EXCEPT ![name] = value]

\* lines 112 and 138-142: the awaited value is the output; the else branch clears
\* has_exception and binds the name.
run_coroutine_resolved(r, v) == [r EXCEPT !.output = v, !.has_exception = FALSE]

CoResolve(s, v) ==
    /\ fr[s].pc = "await"
    /\ results' = [results EXCEPT ![fr[s].call] = run_coroutine_resolved(@, v)]
    /\ ns' = update_ns(ns, results[fr[s].call].target_id, v)
    /\ sys' = ExitContexts(sys, fr[s])
    /\ fr' = [fr EXCEPT ![s].pc = "returned", ![s].awaited = v,
                        ![s].exit_rank = ExitRank]
    /\ UNCHANGED <<self_excepthook, bufs, ncalls, codeVars>>

\* A variant in which the except BaseException clause comes first.
nohandle_matches_never(etype, nohandle_exceptions) == FALSE

\* line 113: except nohandle_exceptions
nohandle_matches(etype, nohandle_exceptions) ==
    \E u \in nohandle_exceptions : issubclass(etype, u)

\* lines 113-137: the awaited computation raises etype.
CoRaise(s, etype, render) ==
    /\ fr[s].pc = "await"
    /\ IF nohandle_matches(etype, fr[s].nohandle)
       THEN /\ sys' = ExitContexts(sys, fr[s])
            /\ fr' = [fr EXCEPT ![s].pc = "raised", ![s].raised = etype,
                                    ![s].fault = etype, ![s].exit_rank = ExitRank]
            /\ bufs' = bufs
       ELSE LET h == show_traceback(Heap(sys, ns, results, bufs), etype, render)
            IN  /\ sys' = ExitContexts(h.sys, fr[s])
                /\ bufs' = h.bufs
                /\ fr' = [fr EXCEPT ![s].pc = "returned", ![s].fault = etype,
                                    ![s].exit_rank = ExitRank]
    /\ UNCHANGED <<ns, self_excepthook, results, ncalls, codeVars>>

(***************************************************************************)
(* code_object.py. A source is its text and what symtable makes of it: a   *)
(* SyntaxError, or the tree of symbol tables, each with its symbols in     *)
(* get_symbols() order and its children in get_children() order. A symbol  *)
(* is its name and what is_global(), is_imported() and is_assigned() say.  *)
(* Two sources with the same tree may differ in their text (body).         *)
(***************************************************************************)
CodeNames == {"a", "b", "c"}
Keys == {"k1", "k2"}

Symbol(n, g, i, a) == [name |-> n, global |-> g, imported |-> i, assigned |-> a]
ModuleSymbols ==
    {Symbol(n, g, i, a) : n \in CodeNames, g \in BOOLEAN, i \in BOOLEAN, a \in BOOLEAN}
\* in a function: a global read, an import, another global read
NestedSymbols ==
    {Symbol("a", TRUE, FALSE, FALSE), Symbol("a", FALSE, TRUE, FALSE),
     Symbol("b", TRUE, FALSE, FALSE)}
\* bindings of a and b at module level, where every bound name is global (Python 3.8
\* and later)
BoundModuleSymbols ==
    {y \in ModuleSymbols : y.name \in {"a", "b"} /\ y.global /\ (y.imported \/ y.assigned)}

\* The symbol lists of one table: at most n symbols of S, no name twice.
SymLists(S, n) ==
    {l \in UNION {[1..k -> S] : k \in 0..n} :
        \A i, j \in 1..Len(l) : i # j => l[i].name # l[j].name}

Table(l, k) == [symbols |-> l, children |-> k]
Leaves == {Table(l, <<>>) : l \in SymLists(NestedSymbols, MaxNested)}
Inner ==
    {Table(l, k) : l \in SymLists(NestedSymbols, MaxNested),
                   k \in {<<>>} \cup {<<g>> : g \in Leaves}}
\* a module scope alone
ModuleTables == {Table(l, <<>>) : l \in SymLists(ModuleSymbols, MaxSyms)}
\* a module scope of at most one symbol, with one child (which has at most one child
\* of its own), or with such a child and a second one
NestedTables ==
    {Table(l, k) : l \in SymLists(ModuleSymbols, 1),
                   k \in {<<m>> : m \in Inner} \cup {<<m, g>> : m \in Inner, g \in Leaves}}
FlatTables == {Table(l, <<>>) : l \in SymLists(BoundModuleSymbols, MaxSyms)}

NoTable == Table(<<>>, <<>>)
Source(b, t) == [body |-> b, malformed |-> FALSE, st |-> t]
Malformed == [body |-> "s1", malformed |-> TRUE, st |-> NoTable]
CodeSources == {Source("s1", t) : t \in ModuleTables \cup NestedTables} \cup {Malformed}
FlatSources == {Source(b, t) : b \in {"s1", "s2"}, t \in FlatTables} \cup {Malformed}

\* SymbolWrapper: the wrapped symbol; __eq__ and __hash__ go by name, __repr__ is "[name]".
SymbolWrapper(sym) == sym
SymbolWrapper_eq(x, y) == x.name = y.name
SymbolWrapper_repr(x) == <<"[", x.name, "]">>

\* _find_symbol_tables, lines 66-73: the symbols of one table, in order; imports is
\* the set shared by the whole traversal.
RECURSIVE scan_symbols(_, _, _)
scan_symbols(syms, acc, nsm) ==
    IF syms = <<>> THEN acc
    ELSE LET sym == Head(syms)
             imports == IF sym.imported THEN acc.imports \cup {sym.name} ELSE acc.imports
             yielded == IF sym.global /\ ~(sym.name \in nsm) /\ ~(sym.name \in imports)
                        THEN <<SymbolWrapper(sym)>> ELSE <<>>
         IN  scan_symbols(Tail(syms), [out |-> acc.out \o yielded, imports |-> imports], nsm)

\* _find_symbol_tables, lines 65-76: this table's symbols, then each child in turn.
RECURSIVE find_symbol_tables(_, _, _)
RECURSIVE find_in_children(_, _, _)
find_symbol_tables(symbols, acc, nsm) ==
    find_in_children(symbols.children, scan_symbols(symbols.symbols, acc, nsm), nsm)
find_in_children(children, acc, nsm) ==
    IF children = <<>> THEN acc
    ELSE find_in_children(Tail(children), find_symbol_tables(Head(children), acc, nsm), nsm)

\* _find_input_variables: list(...) of what the traversal yields.
find_input_variables(st, nsm) ==
    find_symbol_tables(st, [out |-> <<>>, imports |-> {}], nsm).out

\* A variant of _find_output_variables that counts the imports among the bindings.
find_output_variables_counting_imports(st) ==
    LET IsOut(sym) == sym.assigned \/ sym.imported
        output_vars == SelectSeq(st.symbols, IsOut)
    IN  IF Len(output_vars) > 1
        THEN [raised |-> "MultipleDefinitionsError", output_vars |-> <<>>]
        ELSE [raised |-> None, output_vars |-> output_vars]

\* _find_output_variables: the module scope's assigned or imported symbols, in
\* order (the frozenset is built from this list); MultipleDefinitionsError when
\* more than one of them is not an import.
find_output_variables(st) ==
    LET IsOut(sym) == sym.assigned \/ sym.imported
        IsImport(sym) == sym.imported
        output_vars == SelectSeq(st.symbols, IsOut)
        num_imports == Len(SelectSeq(output_vars, IsImport))
    IN  IF (Len(output_vars) - num_imports) > 1
        THEN [raised |-> "MultipleDefinitionsError", output_vars |-> <<>>]
        ELSE [raised |-> None, output_vars |-> output_vars]

\* "+".join(map(str, output_vars)), a string as the sequence of its pieces
RECURSIVE join(_, _)
join(strs, sep) ==
    IF strs = <<>> THEN <<>>
    ELSE IF Len(strs) = 1 THEN Head(strs)
    ELSE Head(strs) \o <<sep>> \o join(Tail(strs), sep)

\* blake2b(digest_size=10, key=key) over a message: taken to be free of collisions,
\* so that a digest stands for its key and message. The message is the utf-8
\* encoding of the joined output names or of the source text.
NoText == [body |-> "", st |-> NoTable]
encode_names(prefix) == [names |-> prefix, text |-> NoText]
encode_code(code) == [names |-> <<>>, text |-> [body |-> code.body, st |-> code.st]]
hexdigest(key, msg) == [key |-> key, msg |-> msg]

\* The identity f"{display_id_prefix}-{h.hexdigest()}", or the digest alone (an
\* empty prefix and no "-").
NoDigest == hexdigest("", encode_names(<<>>))
NoUnit ==
    [status |-> "none", code |-> Malformed, key |-> "", input_vars |-> <<>>,
     output_vars |-> <<>>, display_id |-> [prefix |-> <<>>, digest |-> NoDigest]]

\* The orders a frozenset of the symbols syms may iterate in: all of them, since
\* the order follows the names' hashes, which differ from process to process.
IterationOrders(syms) ==
    {p \in [1..Len(syms) -> {syms[i] : i \in 1..Len(syms)}] :
        \A i, j \in 1..Len(syms) : i # j => p[i] # p[j]}
NameSeq(syms) == [i \in 1..Len(syms) |-> syms[i].name]

\* CodeObject.__init__; iterated is the order in which the frozenset output_vars
\* is iterated by "+".join(map(str, self.output_vars)).
CodeObject_init(code, key, nsm, iterated) ==
    IF code.malformed
    THEN [NoUnit EXCEPT !.status = "SyntaxError", !.code = code, !.key = key]
    ELSE LET input_vars == find_input_variables(code.st, nsm)
             outs == find_output_variables(code.st)
         IN  IF outs.raised # None
             THEN [NoUnit EXCEPT !.status = outs.raised, !.code = code, !.key = key]
             ELSE LET display_id_prefix ==
                          join([i \in 1..Len(iterated) |-> SymbolWrapper_repr(iterated[i])], "+")
                  IN  [status |-> "ok", code |-> code, key |-> key,
                       input_vars |-> input_vars,
                       output_vars |-> iterated,
                       display_id |->
                          IF Len(outs.output_vars) > 0
                          THEN [prefix |-> display_id_prefix,
                                digest |-> hexdigest(key, encode_names(display_id_prefix))]
                          ELSE [prefix |-> <<>>,
                                digest |-> hexdigest(key, encode_code(code))]]

\* CodeObject.__eq__ (both are CodeObjects)
CodeObject_eq(x, y) == x.display_id = y.display_id

UnitSlots == {1, 2}

\* A CodeObject is constructed from a source and a key. The frozenset iterates in
\* some order; the same process iterates a frozenset built by the same insertions
\* in the same order again.
Construct(u, sources) ==
    /\ units[u].status = "none"
    /\ \A w \in UnitSlots : w < u => units[w].status # "none"
    /\ \E code \in sources, key \in Keys :
         LET inserted == IF code.malformed THEN <<>>
                         ELSE find_output_variables(code.st).output_vars
         IN  \E iterated \in IterationOrders(inserted) :
                /\ \A m \in set_order :
                      m.inserted = NameSeq(inserted) => m.iterated = NameSeq(iterated)
                /\ set_order' = IF Len(inserted) > 1
                                THEN set_order \cup {[inserted |-> NameSeq(inserted),
                                                      iterated |-> NameSeq(iterated)]}
                                ELSE set_order
                /\ units' = [units EXCEPT ![u] =
                                 CodeObject_init(code, key, ns_manager, iterated)]
    /\ UNCHANGED <<ns_manager, execVars>>

(***************************************************************************)
(* The executor's specification                                            *)
(***************************************************************************)
\* Executor.__init__ saves the sys.excepthook of that time; the embedding process
\* may install its own streams and hooks afterwards, before it makes the calls.
InitExec ==
    /\ sys \in {[stdout |-> OrigStdout, stderr |-> OrigStderr,
                  displayhook |-> OrigDisplayhook, excepthook |-> OrigExcepthook],
                 [stdout |-> HostObj, stderr |-> HostObj,
                  displayhook |-> HostObj, excepthook |-> HostObj]}
    /\ ns \in {[k \in Names |-> UNBOUND], [k \in Names |-> IF k = "x" THEN "v2" ELSE UNBOUND]}
    /\ self_excepthook \in {OrigExcepthook, sys.excepthook}
    /\ fr = [s \in Slots |-> IdleFrame]
    /\ results = [d \in CallIds |-> ExecutionResult]
    /\ bufs = [d \in CallIds |-> NoBufs]
    /\ ncalls = 0

IdleCode ==
    /\ ns_manager = {}
    /\ units = [u \in UnitSlots |-> NoUnit]
    /\ set_order = {}

Init == InitExec /\ IdleCode

Next ==
    \/ \E s \in Slots : CellStart(s)
    \/ \E s \in Slots : CellParse(s)
    \/ \E s \in Slots : CellCompile(s)
    \/ \E s \in Slots, render \in Renders : CellExec(s, render)
    \/ \E s \in Slots : CellFinish(s)
    \/ \E s \in Slots : CoStart(s)
    \/ \E s \in Slots, e \in CoEffects : CoEffect(s, e)
    \/ \E s \in Slots, v \in Values : CoResolve(s, v)
    \/ \E s \in Slots, t \in ExcTypes, render \in Renders : CoRaise(s, t, render)

Spec == Init /\ [][Next]_vars

(***************************************************************************)
(* The specifications of CodeObject construction: SpecCode constructs one  *)
(* CodeObject at a time from a source with nested scopes, SpecIdent two    *)
(* from sources that have a module scope only.                             *)
(***************************************************************************)
IdleExec ==
    /\ sys = [stdout |-> OrigStdout, stderr |-> OrigStderr,
              displayhook |-> OrigDisplayhook, excepthook |-> OrigExcepthook]
    /\ ns = [k \in Names |-> UNBOUND]
    /\ self_excepthook = OrigExcepthook
    /\ fr = [s \in Slots |-> IdleFrame]
    /\ results = [d \in CallIds |-> ExecutionResult]
    /\ bufs = [d \in CallIds |-> NoBufs]
    /\ ncalls = 0

InitCode ==
    /\ IdleExec
    /\ ns_manager \in {{}, {"b"}}
    /\ units = [u \in UnitSlots |-> NoUnit]
    /\ set_order = {}

NextCode == Construct(1, CodeSources)

SpecCode == InitCode /\ [][NextCode]_vars

NextIdent == \E u \in UnitSlots : Construct(u, FlatSources)

SpecIdent == InitCode /\ [][NextIdent]_vars

(***************************************************************************)
(* The specification of two calls of run_coroutine that overlap: the       *)
(* second enters its capture contexts while the first awaits, and they     *)
(* leave in either order.                                                  *)
(***************************************************************************)
NextOverlap ==
    \/ \E s \in Slots : CoEnter(s)
    \/ \E s \in Slots, e \in CoEffects : CoEffect(s, e)
    \/ \E s \in Slots, v \in Values : CoResolve(s, v)
    \/ \E s \in Slots, t \in ExcTypes, render \in Renders : CoRaise(s, t, render)

SpecOverlap == Init /\ [][NextOverlap]_vars

(***************************************************************************)
(* Properties of the executor                                              *)
(***************************************************************************)
Res(s) == results[fr[s].call]
Returned(s) == fr[s].pc = "returned"
Raised(s) == fr[s].pc = "raised"
Ended(s) == Returned(s) \/ Raised(s)
Tracebacks == {"traceback", "syntax_traceback"}
Rendered(c) == \E i \in 1..Len(bufs[c].err) : bufs[c].err[i] \in Tracebacks
StreamsRestored(s) ==
    /\ sys.stdout = fr[s].before.stdout
    /\ sys.stderr = fr[s].before.stderr
DisplayRestored(s) == sys.displayhook = fr[s].before.displayhook

\* C1: a call of run_cell in which the executed batch or display portion raised a
\* fault, of whatever type, has not raised to its caller: once it has ended it has
\* returned an ExecutionResult whose has_exception is set.
C1_FaultIsCaptured ==
    \A s \in Slots :
        (fr[s].kind = "cell" /\ fr[s].fault # None /\ Ended(s))
            => (Returned(s) /\ Res(s).has_exception)

\* C1 witness: run_cell has returned after its display portion raised, and after a
\* SystemExit (no subclass of Exception) was raised.
C1_Witness ==
    \E s \in Slots :
        /\ fr[s].kind = "cell" /\ Returned(s) /\ Res(s).has_exception
        /\ \/ fr[s].fault = "SystemExit"
           \/ fr[s].fault = "ValueError" /\ fr[s].unit = "display"

\* C2: when a call of run_cell or run_coroutine has ended, by a return or by an
\* exception, sys.stdout, sys.stderr and sys.displayhook are the objects that were
\* installed when the call was made.
C2_SingletonsRestored ==
    \A s \in Slots : Ended(s) => (StreamsRestored(s) /\ DisplayRestored(s))

\* C2 witness: a cell whose code replaced sys.stderr and sys.displayhook has
\* returned without a failure, the embedding process's own objects being installed.
C2_Witness ==
    \E s \in Slots :
        /\ fr[s].kind = "cell" /\ Returned(s) /\ ~Res(s).has_exception
        /\ fr[s].before.stderr = HostObj
        /\ Len(fr[s].code.body) = 2
        /\ fr[s].code.body[1].eff = "set_stderr"
        /\ fr[s].code.body[2].eff = "set_displayhook"

\* C3: when the computation run_coroutine awaited raised a fault whose type is in
\* nohandle_exceptions, the call has raised that fault, nothing was rendered to the
\* captured stderr, the name to bind is bound as before the call, and sys.stdout and
\* sys.stderr are restored.
C3_PropagatedSignal ==
    \A s \in Slots :
        (fr[s].kind = "coroutine" /\ Ended(s) /\ fr[s].fault \in fr[s].nohandle)
            => /\ Raised(s)
               /\ fr[s].raised = fr[s].fault
               /\ ~Rendered(fr[s].call)
               /\ ns[fr[s].variable_name] = fr[s].ns_before[fr[s].variable_name]
               /\ StreamsRestored(s)

\* C3 witness: a CancelledError in nohandle_exceptions has left run_coroutine, after
\* the awaited computation had replaced sys.stdout.
C3_Witness ==
    \E s \in Slots :
        /\ fr[s].kind = "coroutine" /\ Raised(s)
        /\ fr[s].fault = "CancelledError" /\ fr[s].fault \in fr[s].nohandle
        /\ fr[s].effects > 0
        /\ fr[s].before.stdout = HostObj

\* C4 (as claimed): every returned ExecutionResult whose has_exception is set holds
\* the captured failure triple, the exception part of is_complete.
C4_FailureTriplePresent ==
    \A s \in Slots : Returned(s) => exception_fulfilled(Res(s))

\* C5 (as claimed): every returned ExecutionResult whose has_output is set holds an
\* output and a target_id that are not None, the output part of is_complete.
C5_OutputAndNamePresent ==
    \A s \in Slots : Returned(s) => output_fulfilled(Res(s))

\* C6: right after a call has entered its capture contexts the result's stdout and
\* stderr are the objects installed as sys.stdout and sys.stderr, and every returned
\* ExecutionResult, failed or not, holds these two buffers of its own call, neither
\* of them None.
JustEntered(s) ==
    \/ fr[s].pc = "parse"
    \/ fr[s].pc = "await" /\ fr[s].effects = 0
C6_ResultHoldsCaptureBuffers ==
    \A s \in Slots :
        /\ JustEntered(s) => (Res(s).stdout = sys.stdout /\ Res(s).stderr = sys.stderr)
        /\ Returned(s) =>
              /\ stdout_fulfilled(Res(s)) /\ stderr_fulfilled(Res(s))
              /\ Res(s).stdout = StdoutBuf(fr[s].call)
              /\ Res(s).stderr = StderrBuf(fr[s].call)

\* C6 witness: a failed result of the second call holds that call's buffers, into
\* which the executed code wrote.
C6_Witness ==
    \E s \in Slots :
        /\ Returned(s) /\ Res(s).has_exception /\ fr[s].call = 2
        /\ Res(s).stderr = StderrBuf(2)
        /\ bufs[2].out # <<>>

Body(s) == fr[s].code.body
EndsInNamedAssignment(s) ==
    /\ fr[s].kind = "cell" /\ ~fr[s].code.parse_error /\ Body(s) # <<>>
    /\ Last(Body(s)).kind \in assign_nodes
    /\ AssignTarget(Last(Body(s))) \in Names
    /\ Last(Body(s)).val # UNBOUND
RanWithoutFault(s) ==
    fr[s].kind = "cell" /\ Returned(s) /\ compiles(Body(s)) /\ fr[s].fault = None

\* C11 (as claimed): run_cell of a source that ends in a single-target assignment
\* to a bare identifier N and raises no fault returns a result without failure and
\* with target_id N; the namespace binds N to the assigned value, and that value was
\* given to the display handler and is the result's output.
C11_AssignedValueIsOutput ==
    \A s \in Slots :
        (EndsInNamedAssignment(s) /\ RanWithoutFault(s)) =>
            LET N == AssignTarget(Last(Body(s)))
            IN  /\ ~Res(s).has_exception
                /\ Res(s).target_id = N
                /\ ns[N] = Last(Body(s)).val
                /\ Res(s).output = Last(Body(s)).val

\* The computation awaited by call s resolved to a value (it raised nothing).
Resolved(s) == fr[s].kind = "coroutine" /\ Returned(s) /\ fr[s].fault = None

\* C12: when the computation awaited by run_coroutine resolved to a value v, the
\* returned result has has_exception clear, target_id the name to bind and output v;
\* the namespace binds that name to v and every other name as before the call.
C12_ResolvedValueIsBound ==
    \A s \in Slots :
        Resolved(s) =>
            /\ ~Res(s).has_exception
            /\ Res(s).target_id = fr[s].variable_name
            /\ Res(s).output = fr[s].awaited
            /\ ns[fr[s].variable_name] = fr[s].awaited
            /\ \A k \in Names \ {fr[s].variable_name} : ns[k] = fr[s].ns_before[k]

\* C12 witness: a computation resolved to v1 and y was bound to it, x keeping the
\* value it had before the call.
C12_Witness ==
    \E s \in Slots :
        /\ Resolved(s)
        /\ fr[s].variable_name = "y" /\ fr[s].awaited = "v1"
        /\ ns["y"] = "v1" /\ fr[s].ns_before["y"] = UNBOUND
        /\ fr[s].ns_before["x"] = "v2" /\ ns["x"] = "v2"

\* C13 (as claimed): when the computation awaited by run_coroutine raised a fault
\* whose type is not in nohandle_exceptions, the call has returned a result with
\* has_exception set, the failure is rendered in the captured stderr, and the name
\* to bind is bound as before the call.
C13_OtherFaultIsRendered ==
    \A s \in Slots :
        (/\ fr[s].kind = "coroutine" /\ Ended(s) /\ fr[s].fault # None
         /\ ~nohandle_matches(fr[s].fault, fr[s].nohandle))
            => /\ Returned(s)
               /\ Res(s).has_exception
               /\ Rendered(fr[s].call)
               /\ ns[fr[s].variable_name] = fr[s].ns_before[fr[s].variable_name]

\* C14 (as claimed): every result run_cell has returned with has_exception set has a
\* captured stderr that is not empty.
C14_FailureHasStderrText ==
    \A s \in Slots :
        (fr[s].kind = "cell" /\ Returned(s) /\ Res(s).has_exception)
            => bufs[Res(s).stderr.id].err # <<>>

\* The batch portion of call s raised: the fault was recorded while the batch
\* portion was the unit being run.
BatchFailed(s) == fr[s].kind = "cell" /\ fr[s].fault # None /\ fr[s].unit = "batch"

\* C15: the display portion is compiled and run only after the batch portion ran
\* without a fault. When the batch portion raised, the display portion was not run:
\* the returned result has has_exception set and no output, and its buffers hold
\* what the statements before the fault printed to sys.stdout and sys.stderr.
C15_BatchFaultSkipsDisplay ==
    \A s \in Slots :
        /\ (fr[s].unit = "display" /\ fr[s].pc \in {"compile", "exec"})
              => (fr[s].fault = None /\ ~fr[s].run_failed)
        /\ (BatchFailed(s) /\ Ended(s)) =>
              /\ Returned(s)
              /\ Res(s).has_exception
              /\ ~Res(s).has_output /\ Res(s).output = None
              /\ (Len(Body(s)) = 2 /\ Body(s)[1].eff = "print")
                    => (bufs[fr[s].call].out # <<>> /\ Head(bufs[fr[s].call].out) = "text")
              /\ (Len(Body(s)) = 2 /\ Body(s)[1].eff = "eprint")
                    => (bufs[fr[s].call].err # <<>> /\ Head(bufs[fr[s].call].err) = "text")

\* C15 witness: a cell that printed and then raised in its trailing assignment has
\* returned; its display portion, the assigned name, was not run.
C15_Witness ==
    \E s \in Slots :
        /\ BatchFailed(s) /\ Returned(s)
        /\ Len(fr[s].to_run_exec) = 2 /\ fr[s].to_run_interactive # <<>>
        /\ Body(s)[1].eff = "print"
        /\ bufs[fr[s].call].out = <<"text">>
        /\ ~Res(s).has_output

\* C16: when run_cell has returned, sys.excepthook is the hook that was installed
\* when the call was made, whether the units ran to their end or raised and whatever
\* the executed code installed; and when the execution of a unit begins, the hook
\* installed is the one the Executor saved at its construction.
C16_ExcepthookRestored ==
    \A s \in Slots :
        /\ (fr[s].kind = "cell" /\ Returned(s))
              => sys.excepthook = fr[s].before.excepthook
        /\ fr[s].pc = "exec" => sys.excepthook = self_excepthook

\* C16 witness: a cell that replaced sys.excepthook and then raised has returned,
\* the hook of the embedding process, not the one saved at construction, installed.
C16_Witness ==
    \E s \in Slots :
        /\ fr[s].kind = "cell" /\ Returned(s) /\ fr[s].fault # None
        /\ Body(s) # <<>> /\ Body(s)[1].eff = "set_excepthook"
        /\ fr[s].before.excepthook = HostObj /\ self_excepthook = OrigExcepthook
        /\ sys.excepthook = HostObj

\* Under SpecOverlap slot 1 holds the call that entered first and slot 2 the call
\* that entered while the first awaited.
BothEnded == Ended(1) /\ Ended(2)
NoEffects == \A t \in Slots : fr[t].effects = 0
SingletonsAsBefore(s) == StreamsRestored(s) /\ DisplayRestored(s)

\* C17 (as claimed): for two overlapping calls of run_coroutine, once both have
\* ended sys.stdout, sys.stderr and sys.displayhook are the objects installed before
\* the first call started, in whichever order the calls left; and while the call
\* that entered last is still inside its capture contexts (the awaited computations
\* having replaced nothing) sys.stdout and sys.stderr are that call's buffers.
C17_OverlapRestoresOriginals ==
    /\ BothEnded => SingletonsAsBefore(1)
    /\ (fr[2].pc = "await" /\ NoEffects)
          => (sys.stdout = StdoutBuf(fr[2].call) /\ sys.stderr = StderrBuf(fr[2].call))

\* C17 (amended): each call, on leaving, installs what was installed when it entered.
\* Once both calls have ended the singletons are those installed when the call that
\* left last had entered: the ones from before the first call only if the second call
\* left first; if the first call left first they are what the second call found, the
\* first call's buffers and display handler unless its computation had replaced
\* them. And a second call still inside after the first has left does not have its
\* buffers installed: the streams are the ones from before the first call.
C17_LastLeaverRestores ==
    /\ \A s \in Slots : (BothEnded /\ fr[s].exit_rank = 2) => SingletonsAsBefore(s)
    /\ (BothEnded /\ fr[2].exit_rank = 2 /\ NoEffects)
          => /\ sys.stdout = StdoutBuf(fr[1].call)
             /\ sys.stderr = StderrBuf(fr[1].call)
             /\ sys.displayhook = ResultHook(fr[1].call)
    /\ (fr[2].pc = "await" /\ Ended(1) /\ NoEffects) => SingletonsAsBefore(1)
    /\ (fr[2].pc = "await" /\ ~Ended(1) /\ NoEffects)
          => (sys.stdout = StdoutBuf(fr[2].call) /\ sys.stderr = StderrBuf(fr[2].call))

\* C17 witness: the first call left first, the second after it; both have ended and
\* the first call's buffers are installed in place of the original streams.
C17_Witness ==
    /\ BothEnded /\ fr[1].exit_rank = 1 /\ fr[2].exit_rank = 2
    /\ fr[1].before.stdout = OrigStdout
    /\ sys.stdout = StdoutBuf(fr[1].call) /\ sys.displayhook = ResultHook(fr[1].call)

\* Call s wrote a value to the name N in the namespace: a run_coroutine whose awaited
\* computation resolved (update_ns), a run_cell whose batch portion, which ends in the
\* assignment of a value to N, compiled and ran without a fault.
WroteName(s, N) ==
    \/ fr[s].kind = "coroutine" /\ fr[s].fault = None /\ fr[s].variable_name = N
    \/ /\ EndsInNamedAssignment(s) /\ AssignTarget(Last(Body(s))) = N
       /\ compiles(fr[s].to_run_exec) /\ ~BatchFailed(s)

\* C18 (as claimed): a returned result has a target_id N only if its call wrote a
\* value to N in the namespace; a result that reports the failure of the assignment
\* or of the awaited computation has no target_id.
C18_BoundNameWasWritten ==
    \A s \in Slots :
        (Returned(s) /\ Res(s).target_id # None) => WroteName(s, Res(s).target_id)

\* C19 (as claimed): a result of run_cell has has_exception set only if compiling or
\* executing the cell's statements raised; a source of no statements gives a result
\* with has_exception clear and no output, the namespace unchanged.
C19_FailureOnlyOnFault ==
    \A s \in Slots :
        (fr[s].kind = "cell" /\ Returned(s)) =>
            /\ Res(s).has_exception => (fr[s].fault # None \/ ~compiles(Body(s)))
            /\ Body(s) = <<>> =>
                  (~Res(s).has_exception /\ ~Res(s).has_output /\ ns = fr[s].ns_before)

\* C20 (as claimed): in every returned result has_output is set exactly when the
\* recorded output is not None, for run_cell and for run_coroutine.
C20_OutputFlagIffOutput ==
    \A s \in Slots : Returned(s) => (Res(s).has_output <=> Res(s).output # None)

(***************************************************************************)
(* Properties of CodeObject construction                                   *)
(***************************************************************************)
Constructed(u) == units[u].status = "ok"
OutNames(u) == {units[u].output_vars[i].name : i \in 1..Len(units[u].output_vars)}

\* C8 (as claimed): the input list of a constructed CodeObject holds each name at
\* most once, also when the name is a global of the module scope and of nested scopes.
C8_InputsAreDistinct ==
    \A u \in UnitSlots :
        Constructed(u) =>
            \A i, j \in 1..Len(units[u].input_vars) :
                i # j => ~SymbolWrapper_eq(units[u].input_vars[i], units[u].input_vars[j])

\* C9: construction raises MultipleDefinitionsError exactly when the module scope's
\* assigned or imported names, less the imported ones, are more than one; a
\* constructed CodeObject's outputs are all of these names, at most one of them not
\* an import.
ModuleBindings(st) ==
    {i \in 1..Len(st.symbols) : st.symbols[i].assigned \/ st.symbols[i].imported}
ModuleImports(st) == {i \in ModuleBindings(st) : st.symbols[i].imported}
C9_AtMostOneNonImport ==
    \A u \in UnitSlots :
        LET st == units[u].code.st
            excess == Cardinality(ModuleBindings(st)) - Cardinality(ModuleImports(st))
        IN  units[u].status \in {"ok", "MultipleDefinitionsError"} =>
               /\ units[u].status = "MultipleDefinitionsError" <=> excess > 1
               /\ Constructed(u) =>
                     /\ OutNames(u) = {st.symbols[i].name : i \in ModuleBindings(st)}
                     /\ Cardinality({n \in OutNames(u) :
                            \E i \in 1..Len(st.symbols) :
                                st.symbols[i].name = n /\ ~st.symbols[i].imported}) <= 1

\* C9 witness: a CodeObject constructed from two imports and one assignment, its
\* output set of size 3.
C9_Witness ==
    \E u \in UnitSlots :
        /\ Constructed(u)
        /\ Len(units[u].output_vars) = 3
        /\ Cardinality({i \in 1..3 : units[u].output_vars[i].imported}) = 2

\* C10 (as claimed): two CodeObjects constructed with the same key from sources
\* with the same (non-empty) set of output names have equal identities and compare equal,
\* in whatever order the sources bind the names.
C10_SameNamesSameIdentity ==
    (/\ Constructed(1) /\ Constructed(2)
     /\ units[1].key = units[2].key
     /\ OutNames(1) = OutNames(2)
     /\ OutNames(1) # {})
        => (units[1].display_id = units[2].display_id /\ CodeObject_eq(units[1], units[2]))

====
